---------------------------- MODULE Spec2Model ----------------------------
(***************************************************************************)
(* A model of the Packer PowerShell provisioner                             *)
(* (src/provisioner/powershell/provisioner.go): Prepare (configuration      *)
(* validation), createFlattenedEnvVars (the environment assembler) and      *)
(* Provision (the per-script upload/start retry loop), plus Cancel.         *)
(*                                                                          *)
(* Strings that the code takes apart or orders (environment assignments,    *)
(* keys, values, formats) are sequences of byte values; strings the code    *)
(* only passes around (paths, messages) are TLA+ strings.  A Go slice is a  *)
(* record [isNil, elems]: a nil slice and an empty non-nil slice both have  *)
(* length 0 and differ in isNil.  Time is counted in seconds.               *)
(***************************************************************************)
EXTENDS Integers, Sequences, FiniteSets, TLC

VARIABLES
    raws,        \* the configuration config.Decode decodes into p.config
    config,      \* p.config
    statOk,      \* the paths os.Stat succeeds on (the local file system)
    decodeErr,   \* whether config.Decode returns an error
    prepRet,     \* Prepare's return: "none" (not returned), "nil", "decode", "errs"
    prepErrs,    \* the aggregate error Prepare built (a sequence of errors)
    httpAddr,    \* what common.GetHTTPAddr() returns
    envCall,     \* the last createFlattenedEnvVars call: [called, elevated, flattened]
    pc,          \* Provision's position
    scripts,     \* Provision's local list of script paths
    idx,         \* index in scripts of the script being provisioned
    opened,      \* indexes of the scripts whose file is open
    offset,      \* read position in the current script's file
    command,     \* the command text rendered for the current script
    cmd,         \* the packer.RemoteCmd of the last start
    elapsed,     \* seconds since retryable armed its timer (capped at the timeout)
    attempt,     \* calls of the retried function for the current script
    seekFails,   \* of these, the calls that failed at f.Seek
    lastErr,     \* the error of the last failed call of the retried function
    log,         \* every remote operation issued, in order
    result       \* Provision's return: "none" (not returned) or [ok, msg, ...]

prepVars == <<raws, config, statOk, decodeErr, prepRet, prepErrs>>
envVars == <<httpAddr, envCall>>
runVars == <<pc, scripts, idx, opened, offset, command, cmd, elapsed, attempt,
             seekFails, lastErr, log, result>>
vars == <<raws, config, statOk, decodeErr, prepRet, prepErrs, httpAddr, envCall,
          pc, scripts, idx, opened, offset, command, cmd, elapsed, attempt,
          seekFails, lastErr, log, result>>

---------------------------------------------------------------------------
(* Bounds of the model *)

\* longest environment_vars list
MaxVars == 2
\* longest time (seconds) one upload or one start takes
MaxOpTime == 1
\* largest configured start_retry_timeout (seconds)
MaxTimeout == 5
\* most calls of the retried function for one script
MaxAttempts == 5

---------------------------------------------------------------------------
(* Go values *)

NilSlice == [isNil |-> TRUE, elems |-> <<>>]
Slice(s) == [isNil |-> FALSE, elems |-> s]
SliceLen(s) == Len(s.elems)

\* "=" as strings.SplitN's separator
ChEq == 61

\* byte strings used below
StrA == <<65>>
StrZ == <<90>>
\* "PACKER_BUILD_NAME", "PACKER_BUILDER_TYPE", "PACKER_HTTP_ADDR"
KeyBuildName == <<80,65,67,75,69,82,95,66,85,73,76,68,95,78,65,77,69>>
KeyBuilderType == <<80,65,67,75,69,82,95,66,85,73,76,68,69,82,95,84,89,80,69>>
KeyHttpAddr == <<80,65,67,75,69,82,95,72,84,84,80,95,65,68,68,82>>

\* a format with two %s verbs, as the three texts around them:
\* `$env:%s="%s"; ` is <<`$env:`, `="`, `"; `>>
DefaultEnvVarFormat == << <<36,101,110,118,58>>, <<61,34>>, <<34,59,32>> >>
NoFormat == << <<>>, <<>>, <<>> >>
\* `set %s=%s;`, a user-supplied format
SetFormat == << <<115,101,116,32>>, <<61>>, <<59>> >>

\* fmt.Sprintf(format, key, value)
Sprintf(format, key, value) ==
    format[1] \o key \o format[2] \o value \o format[3]

\* Go's a < b on strings: bytewise lexicographic
RECURSIVE StrLess(_, _)
StrLess(a, b) ==
    IF b = <<>> THEN FALSE
    ELSE IF a = <<>> THEN TRUE
    ELSE IF a[1] < b[1] THEN TRUE
    ELSE IF a[1] > b[1] THEN FALSE
    ELSE StrLess(Tail(a), Tail(b))

RECURSIVE SortInsert(_, _)
SortInsert(k, s) ==
    IF s = <<>> THEN <<k>>
    ELSE IF StrLess(s[1], k) THEN <<s[1]>> \o SortInsert(k, Tail(s))
    ELSE <<k>> \o s

\* sort.Strings(keys)
RECURSIVE SortStrings(_)
SortStrings(keys) ==
    IF keys = <<>> THEN <<>> ELSE SortInsert(keys[1], SortStrings(Tail(keys)))

\* the index of the first "=" in s, 0 when there is none
RECURSIVE IndexEq(_, _)
IndexEq(s, i) ==
    IF i > Len(s) THEN 0 ELSE IF s[i] = ChEq THEN i ELSE IndexEq(s, i + 1)

\* SplitN2 that splits at every "=", as strings.Split does
RECURSIVE SplitEvery(_)
SplitEvery(kv) ==
    LET i == IndexEq(kv, 1)
    IN  IF i = 0 THEN <<kv>>
        ELSE <<SubSeq(kv, 1, i - 1)>> \o SplitEvery(SubSeq(kv, i + 1, Len(kv)))

\* strings.SplitN(kv, "=", 2)
SplitN2(kv) ==
    LET i == IndexEq(kv, 1)
    IN  IF i = 0 THEN <<kv>>
        ELSE <<SubSeq(kv, 1, i - 1), SubSeq(kv, i + 1, Len(kv))>>

\* m[k] = v on a Go map
MapSet(m, k, v) == [x \in DOMAIN m \cup {k} |-> IF x = k THEN v ELSE m[x]]

\* every order in which `for k := range m` may visit the keys S
RECURSIVE RangeOrders(_)
RangeOrders(S) ==
    IF S = {} THEN {<<>>}
    ELSE UNION {{<<x>> \o p : p \in RangeOrders(S \ {x})} : x \in S}


---------------------------------------------------------------------------
(* The environment assembler *)

\* ReservedEnvVars storing the HTTP address even when it is empty
ReservedEnvVarsAlwaysHttp(c, http) ==
    LET m0 == [k \in {KeyBuildName} |-> c.PackerBuildName]
        m1 == MapSet(m0, KeyBuilderType, c.PackerBuilderType)
    IN  MapSet(m1, KeyHttpAddr, http)

\* the map createFlattenedEnvVars holds after the reserved variables are set
ReservedEnvVars(c, http) ==
    LET m0 == [k \in {KeyBuildName} |-> c.PackerBuildName]
        m1 == MapSet(m0, KeyBuilderType, c.PackerBuilderType)
    IN  IF http # <<>> THEN MapSet(m1, KeyHttpAddr, http) ELSE m1

\* the loop that splits each assignment and stores it in the map
RECURSIVE OverlayVars(_, _)
OverlayVars(m, vs) ==
    IF vs = <<>> THEN m
    ELSE LET keyValue == SplitN2(vs[1])
         IN  OverlayVars(MapSet(m, keyValue[1], keyValue[2]), Tail(vs))

\* envVars once every assignment of p.config.Vars is stored
EnvVarsMap(c, http) == OverlayVars(ReservedEnvVars(c, http), c.Vars.elems)

\* SortedKeys with the sort left out
UnsortedKeys(order) == order

\* the keys as the range loop appended them (order), then sort.Strings
SortedKeys(order) == SortStrings(order)

\* the format createFlattenedEnvVars uses
EnvFormat(c, elevated) ==
    IF elevated THEN c.ElevatedEnvVarFormat ELSE c.EnvVarFormat

RECURSIVE FlattenKeys(_, _, _)
FlattenKeys(keys, m, format) ==
    IF keys = <<>> THEN <<>>
    ELSE Sprintf(format, keys[1], m[keys[1]])
         \o FlattenKeys(Tail(keys), m, format)

\* createFlattenedEnvVars(elevated), the range loop visiting the keys in `order`
CreateFlattenedEnvVars(c, http, elevated, order) ==
    FlattenKeys(SortedKeys(order), EnvVarsMap(c, http), EnvFormat(c, elevated))

---------------------------------------------------------------------------
(* Prepare *)

DefaultExecuteCommand ==
    "if (Test-Path variable:global:ProgressPreference){$ProgressPreference='SilentlyContinue'};{{.Vars}}&'{{.Path}}';exit $LastExitCode"
DefaultElevatedExecuteCommand ==
    "if (Test-Path variable:global:ProgressPreference){$ProgressPreference='SilentlyContinue'}; . {{.Vars}}; &'{{.Path}}'; exit $LastExitCode"
\* 5 * time.Minute, in seconds
DefaultStartRetryTimeout == 300
\* c:/Windows/Temp/script-<uuid>.ps1, for the uuid that uuid.TimeOrderedUUID() returns
GeneratedRemotePath == "c:/Windows/Temp/script-UUID.ps1"

\* the zero value of Config
ZeroConfig ==
    [ Inline |-> NilSlice, Script |-> "", Scripts |-> NilSlice, Vars |-> NilSlice,
      RemotePath |-> "", ExecuteCommand |-> "", ElevatedExecuteCommand |-> "",
      StartRetryTimeout |-> 0, EnvVarFormat |-> NoFormat,
      ElevatedEnvVarFormat |-> NoFormat, ElevatedUser |-> "",
      ElevatedPassword |-> "", ValidExitCodes |-> NilSlice,
      PackerBuildName |-> <<>>, PackerBuilderType |-> <<>>,
      ctxData |-> [Vars |-> <<>>, Path |-> ""] ]

Err(msg) == [msg |-> msg, path |-> "", kv |-> <<>>]
BadScriptErr(path) == [msg |-> "Bad script", path |-> path, kv |-> <<>>]
BadVarErr(kv) ==
    [msg |-> "Environment variable not in format 'key=value'", path |-> "", kv |-> kv]

\* NormalizeInline that keeps an empty list as it is
NormalizeInlineKeeps(inline) == inline

\* if p.config.Inline != nil && len(p.config.Inline) == 0 { p.config.Inline = nil }
NormalizeInline(inline) ==
    IF ~inline.isNil /\ SliceLen(inline) = 0 THEN NilSlice ELSE inline

\* the defaults Prepare fills in
ApplyDefaults(c) ==
    [c EXCEPT
       !.EnvVarFormat = IF @ = NoFormat THEN DefaultEnvVarFormat ELSE @,
       !.ElevatedEnvVarFormat = IF @ = NoFormat THEN DefaultEnvVarFormat ELSE @,
       !.ExecuteCommand = IF @ = "" THEN DefaultExecuteCommand ELSE @,
       !.ElevatedExecuteCommand =
           IF @ = "" THEN DefaultElevatedExecuteCommand ELSE @,
       !.Inline = NormalizeInline(@),
       !.StartRetryTimeout = IF @ = 0 THEN DefaultStartRetryTimeout ELSE @,
       !.RemotePath = IF @ = "" THEN GeneratedRemotePath ELSE @,
       !.Scripts = IF @.isNil THEN Slice(<<>>) ELSE @,
       !.Vars = IF @.isNil THEN Slice(<<>>) ELSE @,
       !.ValidExitCodes = IF @.isNil THEN Slice(<<0>>) ELSE @]

\* c is the configuration with its defaults applied
ScriptConflictErrs(c) ==
    IF c.Script # "" /\ SliceLen(c.Scripts) > 0
    THEN <<Err("Only one of script or scripts can be specified.")>>
    ELSE <<>>

\* ElevatedErrs with the two messages exchanged
ElevatedErrsSwapped(c) ==
    (IF c.ElevatedUser # "" /\ c.ElevatedPassword = ""
     THEN <<Err("Must supply an 'elevated_user' if 'elevated_password' provided")>>
     ELSE <<>>)
    \o
    (IF c.ElevatedUser = "" /\ c.ElevatedPassword # ""
     THEN <<Err("Must supply an 'elevated_password' if 'elevated_user' provided")>>
     ELSE <<>>)

ElevatedErrs(c) ==
    (IF c.ElevatedUser # "" /\ c.ElevatedPassword = ""
     THEN <<Err("Must supply an 'elevated_password' if 'elevated_user' provided")>>
     ELSE <<>>)
    \o
    (IF c.ElevatedUser = "" /\ c.ElevatedPassword # ""
     THEN <<Err("Must supply an 'elevated_user' if 'elevated_password' provided")>>
     ELSE <<>>)

\* if p.config.Script != "" { p.config.Scripts = []string{p.config.Script} }
MergeScript(c) ==
    IF c.Script # "" THEN [c EXCEPT !.Scripts = Slice(<<c.Script>>)] ELSE c

\* SourceErrs without the check that inline and file scripts are not both set
SourceErrsNoBoth(c) ==
    IF SliceLen(c.Scripts) = 0 /\ c.Inline.isNil
    THEN <<Err("Either a script file or inline script must be specified.")>>
    ELSE <<>>

\* c is the configuration after MergeScript
SourceErrs(c) ==
    IF SliceLen(c.Scripts) = 0 /\ c.Inline.isNil
    THEN <<Err("Either a script file or inline script must be specified.")>>
    ELSE IF SliceLen(c.Scripts) > 0 /\ ~c.Inline.isNil
    THEN <<Err("Only a script file or an inline script can be specified, not both.")>>
    ELSE <<>>

RECURSIVE StatErrs(_, _)
StatErrs(paths, stat) ==
    IF paths = <<>> THEN <<>>
    ELSE (IF paths[1] \in stat THEN <<>> ELSE <<BadScriptErr(paths[1])>>)
         \o StatErrs(Tail(paths), stat)

\* VarErrs that stops at the first malformed assignment
RECURSIVE VarErrsFirstOnly(_)
VarErrsFirstOnly(vs) ==
    IF vs = <<>> THEN <<>>
    ELSE LET parts == SplitN2(vs[1])
         IN  IF Len(parts) # 2 \/ parts[1] = <<>>
             THEN <<BadVarErr(vs[1])>>
             ELSE VarErrsFirstOnly(Tail(vs))

RECURSIVE VarErrs(_)
VarErrs(vs) ==
    IF vs = <<>> THEN <<>>
    ELSE (LET parts == SplitN2(vs[1])
          IN  IF Len(parts) # 2 \/ parts[1] = <<>>
              THEN <<BadVarErr(vs[1])>> ELSE <<>>)
         \o VarErrs(Tail(vs))

\* p.config when Prepare returns, having decoded raw
PreparedConfig(raw) == MergeScript(ApplyDefaults(raw))

\* errs when Prepare returns, having decoded raw, os.Stat succeeding on stat
PrepareErrs(raw, stat) ==
    LET c1 == ApplyDefaults(raw)
        c2 == MergeScript(c1)
    IN  ScriptConflictErrs(c1) \o ElevatedErrs(c1) \o SourceErrs(c2)
        \o StatErrs(c2.Scripts.elems, stat) \o VarErrs(c2.Vars.elems)

---------------------------------------------------------------------------
(* Inputs *)

BoundedSeq(S, n) == UNION {[1..k -> S] : k \in 0..n}

ScriptPaths == {"a.ps1", "b.ps1"}

\* "A=1", "A" (no "="), "=1" (empty key), "A=1=2" (two "=")
RawAssignments == {<<65,61,49>>, <<65>>, <<61,49>>, <<65,61,49,61,50>>}

\* "A=1", "A=2", "Z=2", "PB=1", "PACKER_BUILD_NAME=2", "PACKER_HTTP_ADDR=2",
\* "A=1=2"
ValidAssignments ==
    {<<65,61,49>>, <<65,61,50>>, <<90,61,50>>, <<80,66,61,49>>,
     KeyBuildName \o <<61,50>>, KeyHttpAddr \o <<61,50>>, <<65,61,49,61,50>>}

\* the configurations Prepare is given
PrepareRaws ==
    {[ZeroConfig EXCEPT !.Inline = i, !.Script = s, !.Scripts = ss,
                        !.Vars = v, !.ElevatedUser = u, !.ElevatedPassword = pw,
                        !.ValidExitCodes = x] :
        i \in {NilSlice, Slice(<<>>), Slice(<<"echo 1">>)},
        s \in {"", "a.ps1"},
        ss \in {NilSlice, Slice(<<"a.ps1">>), Slice(<<"b.ps1", "a.ps1">>)},
        v \in {NilSlice} \cup {Slice(q) : q \in BoundedSeq(RawAssignments, MaxVars) \ {<<>>}},
        u \in {"", "admin"},
        pw \in {"", "secret"},
        x \in {NilSlice, Slice(<<0, 3010>>)}}

\* the configurations the environment assembler is tried on
EnvRaws ==
    {[ZeroConfig EXCEPT !.Inline = Slice(<<"echo 1">>), !.Vars = Slice(q),
                        !.ElevatedEnvVarFormat = SetFormat,
                        !.PackerBuildName = <<98>>, !.PackerBuilderType = <<116>>] :
        q \in BoundedSeq(ValidAssignments, MaxVars)}

\* the exit statuses a started command reports
ExitStatuses == {0, 1, 3010}

\* a template interpolate.Render cannot parse
MalformedTemplate == "{{.Vars"

\* the configurations Provision is run with, as given to Prepare
ProvisionRaws ==
    {[ZeroConfig EXCEPT !.Inline = src[1], !.Script = src[2], !.Scripts = src[3],
                        !.Vars = Slice(<<<<90,61,50>>, <<65,61,49>>>>),
                        !.ElevatedUser = el[1], !.ElevatedPassword = el[2],
                        !.ValidExitCodes = x, !.StartRetryTimeout = t,
                        !.ExecuteCommand = tm, !.ElevatedExecuteCommand = tm,
                        !.PackerBuildName = <<98>>, !.PackerBuilderType = <<116>>] :
        src \in {<<NilSlice, "", Slice(<<"a.ps1", "b.ps1">>)>>,
                 <<NilSlice, "a.ps1", NilSlice>>,
                 <<Slice(<<"echo 1">>), "", NilSlice>>},
        el \in {<<"", "">>, <<"admin", "secret">>},
        x \in {NilSlice, Slice(<<0, 3010>>)},
        t \in {1, MaxTimeout},
        tm \in {"", MalformedTemplate}}

NoCommand == [runner |-> "", payload |-> [kind |-> "none"]]
NotReturned ==
    [returned |-> FALSE, ok |-> FALSE, msg |-> "", cause |-> "", status |-> 0,
     allowed |-> <<>>]
Success ==
    [returned |-> TRUE, ok |-> TRUE, msg |-> "", cause |-> "", status |-> 0,
     allowed |-> <<>>]
Failure(msg, cause) ==
    [returned |-> TRUE, ok |-> FALSE, msg |-> msg, cause |-> cause, status |-> 0,
     allowed |-> <<>>]

RunIdle ==
    /\ pc = "idle"
    /\ scripts = <<>>
    /\ idx = 0
    /\ opened = {}
    /\ offset = 0
    /\ command = NoCommand
    /\ cmd = [Command |-> NoCommand, ExitStatus |-> 0]
    /\ elapsed = 0
    /\ attempt = 0
    /\ seekFails = 0
    /\ lastErr = ""
    /\ log = <<>>
    /\ result = NotReturned

EnvIdle ==
    /\ envCall = [called |-> FALSE, elevated |-> FALSE, flattened |-> <<>>]

---------------------------------------------------------------------------
(* Prepare as an action *)

Prepare ==
    /\ prepRet = "none"
    /\ IF decodeErr
       THEN /\ prepRet' = "decode"
            /\ UNCHANGED <<config, prepErrs>>
       ELSE /\ config' = PreparedConfig(raws)
            /\ prepErrs' = PrepareErrs(raws, statOk)
            /\ prepRet' = IF prepErrs' = <<>> THEN "nil" ELSE "errs"
    /\ UNCHANGED <<raws, statOk, decodeErr, httpAddr, envCall>>
    /\ UNCHANGED runVars

InitPrepare ==
    /\ raws \in PrepareRaws
    /\ config = ZeroConfig
    /\ statOk \in SUBSET ScriptPaths
    /\ decodeErr \in BOOLEAN
    /\ prepRet = "none"
    /\ prepErrs = <<>>
    /\ httpAddr = <<>>
    /\ EnvIdle
    /\ RunIdle

NextPrepare == Prepare

SpecPrepare == InitPrepare /\ [][NextPrepare]_vars

---------------------------------------------------------------------------
(* createFlattenedEnvVars as an action *)

CallCreateFlattenedEnvVars ==
    /\ prepRet = "nil"
    /\ \E elevated \in BOOLEAN :
         \E order \in RangeOrders(DOMAIN EnvVarsMap(config, httpAddr)) :
            envCall' = [called |-> TRUE, elevated |-> elevated,
                        flattened |-> CreateFlattenedEnvVars(config, httpAddr,
                                                             elevated, order)]
    /\ UNCHANGED <<httpAddr>>
    /\ UNCHANGED prepVars
    /\ UNCHANGED runVars

InitEnv ==
    /\ raws \in EnvRaws
    /\ config = PreparedConfig(raws)
    /\ statOk = ScriptPaths
    /\ decodeErr = FALSE
    /\ prepRet = "nil"
    /\ prepErrs = <<>>
    /\ httpAddr \in {<<>>, <<104>>}
    /\ EnvIdle
    /\ RunIdle

NextEnv == CallCreateFlattenedEnvVars

SpecEnv == InitEnv /\ [][NextEnv]_vars

---------------------------------------------------------------------------
(* Provision *)

\* var retryableSleep = 2 * time.Second
RetryableSleep == 2

\* the path of the file extractScript wrote the inline commands to
TempScript == "/tmp/packer-powershell-provisioner-N"

Min(a, b) == IF a < b THEN a ELSE b

\* interpolate.Render(template, ctx) fails on a template it cannot parse
RenderOk(template) == template # MalformedTemplate
\* the text interpolate.Render(template, ctx) returns
Render(template, data) == [template |-> template, data |-> data]
\* powershellEncode(text): base64 of the UTF-16LE bytes of text
PowershellEncode(text) == [base64utf16le |-> text]

\* ${env:TEMP}\packer-env-vars-<uuid>.ps1 for the script's uuid
EnvVarPath(i) == [name |-> "${env:TEMP}\\packer-env-vars-", script |-> i]
\* the CMD form of the path the wrapper was uploaded to
WrapperCmdPath(i) == [name |-> "%TEMP%\\packer-elevated-shell-", script |-> i]

\* the length of a script file, the read position once it is read whole
ScriptLen == 1

\* a remote operation; `from` is the position its content was read from
LogEntry(op, ok, exit) ==
    [op |-> op, script |-> idx, attempt |-> attempt, ok |-> ok, exit |-> exit,
     from |-> 0]

\* the time the retry timer has run after d more seconds
After(d) == Min(elapsed + d, config.StartRetryTimeout)

\* return r from Provision: the deferred f.Close() calls run
Return(r) ==
    /\ result' = r
    /\ pc' = "done"
    /\ opened' = {}

\* p.retryable(...) is entered: time.After arms the timer
EnterRetryable ==
    /\ pc' = "attempt"
    /\ elapsed' = 0
    /\ attempt' = 0
    /\ seekFails' = 0
    /\ lastErr' = ""

\* BuildScripts that appends the temporary script to p.config.Scripts itself
BuildScriptsInPlace ==
    /\ pc = "idle"
    /\ prepRet = "nil"
    /\ \E tempOk \in BOOLEAN :
         /\ tempOk \/ ~config.Inline.isNil
         /\ scripts' = config.Scripts.elems \o
                (IF config.Inline.isNil THEN <<>>
                 ELSE IF tempOk THEN <<TempScript>> ELSE <<"">>)
    /\ config' = [config EXCEPT !.Scripts = Slice(scripts')]
    /\ idx' = 1
    /\ IF scripts' = <<>>
       THEN Return(Success)
       ELSE /\ pc' = "open"
            /\ UNCHANGED <<opened, result>>
    /\ UNCHANGED <<command, cmd, elapsed, attempt, seekFails, lastErr, log>>
    /\ UNCHANGED offset
    /\ UNCHANGED <<raws, statOk, decodeErr, prepRet, prepErrs>>
    /\ UNCHANGED envVars

\* lines 231-243: the communicator is kept and the script list is built
BuildScripts ==
    /\ pc = "idle"
    /\ prepRet = "nil"
    /\ \E tempOk \in BOOLEAN :
         /\ tempOk \/ ~config.Inline.isNil
         /\ scripts' = config.Scripts.elems \o
                (IF config.Inline.isNil THEN <<>>
                 ELSE IF tempOk THEN <<TempScript>> ELSE <<"">>)
    /\ idx' = 1
    /\ IF scripts' = <<>>
       THEN Return(Success)
       ELSE /\ pc' = "open"
            /\ UNCHANGED <<opened, result>>
    /\ UNCHANGED <<command, cmd, elapsed, attempt, seekFails, lastErr, log>>
    /\ UNCHANGED offset
    /\ UNCHANGED prepVars
    /\ UNCHANGED envVars

\* OpenScript that skips a script it cannot open
OpenScriptSkips ==
    /\ pc = "open"
    /\ \E ok \in BOOLEAN :
         /\ ok => scripts[idx] # ""
         /\ IF ok
            THEN /\ opened' = opened \cup {idx}
                 /\ offset' = 0
                 /\ pc' = "render"
                 /\ UNCHANGED <<result, idx>>
            ELSE IF idx = Len(scripts)
            THEN /\ Return(Success)
                 /\ UNCHANGED <<idx, offset>>
            ELSE /\ idx' = idx + 1
                 /\ UNCHANGED <<pc, opened, offset, result>>
    /\ UNCHANGED <<scripts, command, cmd, elapsed, attempt, seekFails,
                   lastErr, log>>
    /\ UNCHANGED prepVars
    /\ UNCHANGED envVars

\* lines 246-253: os.Open(path)
OpenScript ==
    /\ pc = "open"
    /\ \E ok \in BOOLEAN :
         /\ ok => scripts[idx] # ""
         /\ IF ok
            THEN /\ opened' = opened \cup {idx}
                 /\ offset' = 0
                 /\ pc' = "render"
                 /\ UNCHANGED result
            ELSE /\ Return(Failure("Error opening powershell script", "open"))
                 /\ UNCHANGED offset
    /\ UNCHANGED <<scripts, idx, command, cmd, elapsed, attempt, seekFails,
                   lastErr, log>>
    /\ UNCHANGED prepVars
    /\ UNCHANGED envVars

\* createCommandText -> createCommandTextNonPrivileged, generateCommandLineRunner
CreateCommandTextNonPrivileged ==
    /\ pc = "render"
    /\ config.ElevatedUser = ""
    /\ \E order \in RangeOrders(DOMAIN EnvVarsMap(config, httpAddr)),
          encodeOk \in BOOLEAN :
         LET flattenedEnvVars == CreateFlattenedEnvVars(config, httpAddr, FALSE, order)
             data == [Vars |-> [text |-> flattenedEnvVars, file |-> NoCommand.payload],
                      Path |-> config.RemotePath]
             rendered == Render(config.ExecuteCommand, data)
         IN  /\ config' = [config EXCEPT !.ctxData = data]
             /\ IF ~RenderOk(config.ExecuteCommand)
                THEN /\ Return(Failure("Error processing command", "render"))
                     /\ UNCHANGED <<command, elapsed, attempt, seekFails, lastErr>>
                ELSE IF ~encodeOk
                THEN /\ Return(Failure("Error processing command", "encode"))
                     /\ UNCHANGED <<command, elapsed, attempt, seekFails, lastErr>>
                ELSE /\ command' =
                           [runner |-> "powershell -executionpolicy bypass -encodedCommand ",
                            payload |-> [kind |-> "encoded",
                                         text |-> PowershellEncode(rendered)]]
                     /\ EnterRetryable
                     /\ UNCHANGED <<opened, result>>
    /\ UNCHANGED <<scripts, idx, cmd, log>>
    /\ UNCHANGED offset
    /\ UNCHANGED <<raws, statOk, decodeErr, prepRet, prepErrs>>
    /\ UNCHANGED envVars

\* UploadEnvVars that goes on to the wrapper when its upload is rejected
UploadEnvVarsGoesOn ==
    /\ pc = "render"
    /\ config.ElevatedUser # ""
    /\ \E ok \in BOOLEAN :
         /\ log' = Append(log, LogEntry("uploadEnvVars", ok, 0))
         /\ pc' = "wrapper"
         /\ UNCHANGED <<opened, result>>
    /\ UNCHANGED <<scripts, idx, command, cmd, elapsed, attempt, seekFails, lastErr>>
    /\ UNCHANGED offset
    /\ UNCHANGED prepVars
    /\ UNCHANGED envVars

\* createCommandTextPrivileged, lines 413-425: the environment script is uploaded
UploadEnvVars ==
    /\ pc = "render"
    /\ config.ElevatedUser # ""
    /\ \E ok \in BOOLEAN :
         /\ log' = Append(log, LogEntry("uploadEnvVars", ok, 0))
         /\ IF ok
            THEN /\ pc' = "wrapper"
                 /\ UNCHANGED <<opened, result>>
            ELSE Return(Failure("Error processing command", "uploadEnvVars"))
    /\ UNCHANGED <<scripts, idx, command, cmd, elapsed, attempt, seekFails, lastErr>>
    /\ UNCHANGED offset
    /\ UNCHANGED prepVars
    /\ UNCHANGED envVars

\* createCommandTextPrivileged, lines 427-446, and generateElevatedRunner
GenerateElevatedRunner ==
    /\ pc = "wrapper"
    /\ \E encodeOk \in BOOLEAN, templateOk \in BOOLEAN, uploadOk \in BOOLEAN :
         LET data == [Vars |-> [text |-> <<>>, file |-> EnvVarPath(idx)],
                      Path |-> config.RemotePath]
         IN  /\ config' = [config EXCEPT !.ctxData = data]
             /\ IF ~RenderOk(config.ElevatedExecuteCommand)
                THEN /\ Return(Failure("Error processing command", "render"))
                     /\ UNCHANGED <<command, elapsed, attempt, seekFails, lastErr, log>>
                ELSE IF ~encodeOk
                THEN /\ Return(Failure("Error processing command", "encode"))
                     /\ UNCHANGED <<command, elapsed, attempt, seekFails, lastErr, log>>
                ELSE IF ~templateOk
                THEN /\ Return(Failure("Error processing command", "template"))
                     /\ UNCHANGED <<command, elapsed, attempt, seekFails, lastErr, log>>
                ELSE /\ log' = Append(log, LogEntry("uploadWrapper", uploadOk, 0))
                     /\ IF ~uploadOk
                        THEN /\ Return(Failure("Error processing command", "uploadWrapper"))
                             /\ UNCHANGED <<command, elapsed, attempt, seekFails, lastErr>>
                        ELSE /\ command' =
                                   [runner |-> "powershell -executionpolicy bypass -file ",
                                    payload |-> [kind |-> "file",
                                                 path |-> WrapperCmdPath(idx)]]
                             /\ EnterRetryable
                             /\ UNCHANGED <<opened, result>>
    /\ UNCHANGED <<scripts, idx, cmd>>
    /\ UNCHANGED offset
    /\ UNCHANGED <<raws, statOk, decodeErr, prepRet, prepErrs>>
    /\ UNCHANGED envVars

\* UploadScript with the upload done on the first attempt only
UploadScriptOnce ==
    /\ pc = "attempt"
    /\ attempt < MaxAttempts
    /\ attempt' = attempt + 1
    /\ \E seekOk \in BOOLEAN, uploadOk \in BOOLEAN, d \in 0..MaxOpTime,
          read \in 0..ScriptLen :
         IF ~seekOk
         THEN /\ uploadOk /\ d = 0 /\ read = 0
              /\ seekFails' = seekFails + 1
              /\ lastErr' = "seek"
              /\ pc' = "failed"
              /\ UNCHANGED <<log, elapsed, offset>>
         ELSE IF attempt >= 1
         THEN /\ uploadOk /\ d = 0 /\ read = 0
              /\ pc' = "start"
              /\ offset' = 0
              /\ UNCHANGED <<log, elapsed, lastErr, seekFails>>
         ELSE /\ log' = Append(log, [LogEntry("upload", uploadOk, 0)
                                        EXCEPT !.attempt = attempt + 1, !.from = 0])
              /\ elapsed' = After(d)
              /\ IF uploadOk
                 THEN /\ read = ScriptLen
                      /\ pc' = "start"
                      /\ UNCHANGED lastErr
                 ELSE /\ pc' = "failed"
                      /\ lastErr' = "Error uploading script"
              /\ offset' = read
              /\ UNCHANGED seekFails
    /\ UNCHANGED <<scripts, idx, opened, command, cmd, result>>
    /\ UNCHANGED prepVars
    /\ UNCHANGED envVars

\* UploadScript without f.Seek: the file is read from where the last read left it
UploadScriptNoSeek ==
    /\ pc = "attempt"
    /\ attempt < MaxAttempts
    /\ attempt' = attempt + 1
    /\ \E uploadOk \in BOOLEAN, d \in 0..MaxOpTime, read \in offset..ScriptLen :
         /\ log' = Append(log, [LogEntry("upload", uploadOk, 0)
                                   EXCEPT !.attempt = attempt + 1, !.from = offset])
         /\ elapsed' = After(d)
         /\ IF uploadOk
            THEN /\ read = ScriptLen
                 /\ pc' = "start"
                 /\ UNCHANGED lastErr
            ELSE /\ pc' = "failed"
                 /\ lastErr' = "Error uploading script"
         /\ offset' = read
         /\ UNCHANGED seekFails
    /\ UNCHANGED <<scripts, idx, opened, command, cmd, result>>
    /\ UNCHANGED prepVars
    /\ UNCHANGED envVars

\* UploadScript that reads the timer first and gives up when it has run out
UploadScriptChecksFirst ==
    /\ pc = "attempt"
    /\ attempt < MaxAttempts
    /\ IF elapsed >= config.StartRetryTimeout
       THEN /\ Return(Failure("Retryable error", lastErr))
            /\ UNCHANGED <<attempt, seekFails, lastErr, log, elapsed, offset>>
       ELSE /\ attempt' = attempt + 1
            /\ UNCHANGED <<opened, result>>
            /\ \E seekOk \in BOOLEAN, uploadOk \in BOOLEAN, d \in 0..MaxOpTime,
                  read \in 0..ScriptLen :
                 IF ~seekOk
                 THEN /\ uploadOk /\ d = 0 /\ read = 0
                      /\ seekFails' = seekFails + 1
                      /\ lastErr' = "seek"
                      /\ pc' = "failed"
                      /\ UNCHANGED <<log, elapsed, offset>>
                 ELSE /\ log' = Append(log, [LogEntry("upload", uploadOk, 0)
                                        EXCEPT !.attempt = attempt + 1, !.from = 0])
                      /\ elapsed' = After(d)
                      /\ IF uploadOk
                         THEN /\ read = ScriptLen
                              /\ pc' = "start"
                              /\ UNCHANGED lastErr
                         ELSE /\ pc' = "failed"
                              /\ lastErr' = "Error uploading script"
                      /\ offset' = read
                      /\ UNCHANGED seekFails
    /\ UNCHANGED <<scripts, idx, command, cmd>>
    /\ UNCHANGED prepVars
    /\ UNCHANGED envVars

\* the retried function, lines 267-272: f.Seek(0, 0), then comm.Upload reads
\* the file from there: to its end when it succeeds, up to anywhere when it fails
\* (MaxAttempts caps the attempt counter; the timer ends the loop before it)
UploadScript ==
    /\ pc = "attempt"
    /\ attempt < MaxAttempts
    /\ attempt' = attempt + 1
    /\ \E seekOk \in BOOLEAN, uploadOk \in BOOLEAN, d \in 0..MaxOpTime,
          read \in 0..ScriptLen :
         IF ~seekOk
         THEN /\ uploadOk /\ d = 0 /\ read = 0
              /\ seekFails' = seekFails + 1
              /\ lastErr' = "seek"
              /\ pc' = "failed"
              /\ UNCHANGED <<log, elapsed, offset>>
         ELSE /\ log' = Append(log, [LogEntry("upload", uploadOk, 0)
                                        EXCEPT !.attempt = attempt + 1, !.from = 0])
              /\ elapsed' = After(d)
              /\ IF uploadOk
                 THEN /\ read = ScriptLen
                      /\ pc' = "start"
                      /\ UNCHANGED lastErr
                 ELSE /\ pc' = "failed"
                      /\ lastErr' = "Error uploading script"
              /\ offset' = read
              /\ UNCHANGED seekFails
    /\ UNCHANGED <<scripts, idx, opened, command, cmd, result>>
    /\ UNCHANGED prepVars
    /\ UNCHANGED envVars

\* StartCommand that takes a start that failed for one that succeeded
StartCommandIgnoresError ==
    /\ pc = "start"
    /\ \E ok \in BOOLEAN, status \in ExitStatuses :
         /\ ~ok => status = 0
         /\ cmd' = [Command |-> command, ExitStatus |-> status]
         /\ log' = Append(log, LogEntry("start", ok, status))
         /\ pc' = "exit"
         /\ elapsed' = 0
         /\ UNCHANGED lastErr
    /\ UNCHANGED <<scripts, idx, opened, command, attempt, seekFails, result>>
    /\ UNCHANGED offset
    /\ UNCHANGED prepVars
    /\ UNCHANGED envVars

\* the retried function, lines 274-275: cmd.StartWithUi(comm, ui); a start that
\* succeeds ends retryable (lines 313-315), whose timer is read no more
StartCommand ==
    /\ pc = "start"
    /\ \E ok \in BOOLEAN, status \in ExitStatuses, d \in 0..MaxOpTime :
         IF ok
         THEN /\ d = 0
              /\ cmd' = [Command |-> command, ExitStatus |-> status]
              /\ log' = Append(log, LogEntry("start", TRUE, status))
              /\ pc' = "exit"
              /\ elapsed' = 0
              /\ UNCHANGED lastErr
         ELSE /\ status = 0
              /\ cmd' = [Command |-> command, ExitStatus |-> 0]
              /\ log' = Append(log, LogEntry("start", FALSE, 0))
              /\ pc' = "failed"
              /\ elapsed' = After(d)
              /\ lastErr' = "start"
    /\ UNCHANGED <<scripts, idx, opened, command, attempt, seekFails, result>>
    /\ UNCHANGED offset
    /\ UNCHANGED prepVars
    /\ UNCHANGED envVars

\* RetryCheck without the timer's case: every failure sleeps and retries
RetryCheckNoTimeout ==
    /\ pc = "failed"
    /\ pc' = "sleep"
    /\ UNCHANGED <<opened, result, elapsed>>
    /\ UNCHANGED <<scripts, idx, command, cmd, attempt, seekFails, lastErr, log>>
    /\ UNCHANGED offset
    /\ UNCHANGED prepVars
    /\ UNCHANGED envVars

\* RetryCheck that renders the command again before the next attempt
RetryCheckRerenders ==
    /\ pc = "failed"
    /\ IF elapsed >= config.StartRetryTimeout
       THEN /\ Return(Failure("Retryable error", lastErr))
            /\ UNCHANGED elapsed
       ELSE /\ pc' = "render"
            /\ UNCHANGED <<opened, result, elapsed>>
    /\ UNCHANGED <<scripts, idx, command, cmd, attempt, seekFails, lastErr, log>>
    /\ UNCHANGED offset
    /\ UNCHANGED prepVars
    /\ UNCHANGED envVars

\* retryable, lines 317-327: the select on the timer
RetryCheck ==
    /\ pc = "failed"
    /\ IF elapsed >= config.StartRetryTimeout
       THEN /\ Return(Failure("Retryable error", lastErr))
            /\ UNCHANGED elapsed
       ELSE /\ pc' = "sleep"
            /\ UNCHANGED <<opened, result, elapsed>>
    /\ UNCHANGED <<scripts, idx, command, cmd, attempt, seekFails, lastErr, log>>
    /\ UNCHANGED offset
    /\ UNCHANGED prepVars
    /\ UNCHANGED envVars

\* Sleep with a delay that grows with the attempts made
SleepGrowing ==
    /\ pc = "sleep"
    /\ elapsed' = After(RetryableSleep * attempt)
    /\ pc' = "attempt"
    /\ UNCHANGED <<scripts, idx, opened, command, cmd, attempt, seekFails,
                   lastErr, log, result>>
    /\ UNCHANGED offset
    /\ UNCHANGED prepVars
    /\ UNCHANGED envVars

\* retryable, line 328: time.Sleep(retryableSleep)
Sleep ==
    /\ pc = "sleep"
    /\ elapsed' = After(RetryableSleep)
    /\ pc' = "attempt"
    /\ UNCHANGED <<scripts, idx, opened, command, cmd, attempt, seekFails,
                   lastErr, log, result>>
    /\ UNCHANGED offset
    /\ UNCHANGED prepVars
    /\ UNCHANGED envVars

\* ValidExitCode that accepts 0 only, whatever is configured
ValidExitCodeZeroOnly(status, codes) == status = 0

\* whether status is one of p.config.ValidExitCodes (lines 285-290)
ValidExitCode(status, codes) == \E i \in 1..Len(codes) : codes[i] = status

\* CheckExitStatus that goes on to the next script whatever the exit status
CheckExitStatusGoesOn ==
    /\ pc = "exit"
    /\ IF idx = Len(scripts)
       THEN /\ IF ~ValidExitCode(cmd.ExitStatus, config.ValidExitCodes.elems)
               THEN Return([Failure("Script exited with non-zero exit status", "exit")
                               EXCEPT !.status = cmd.ExitStatus,
                                      !.allowed = config.ValidExitCodes.elems])
               ELSE Return(Success)
            /\ UNCHANGED idx
       ELSE /\ idx' = idx + 1
            /\ pc' = "open"
            /\ opened' = opened \ {idx}
            /\ UNCHANGED result
    /\ UNCHANGED <<scripts, command, cmd, elapsed, attempt, seekFails, lastErr, log>>
    /\ UNCHANGED offset
    /\ UNCHANGED prepVars
    /\ UNCHANGED envVars

\* lines 281-296: the file is closed and the exit status checked
CheckExitStatus ==
    /\ pc = "exit"
    /\ IF ~ValidExitCode(cmd.ExitStatus, config.ValidExitCodes.elems)
       THEN /\ Return([Failure("Script exited with non-zero exit status", "exit")
                          EXCEPT !.status = cmd.ExitStatus,
                                 !.allowed = config.ValidExitCodes.elems])
            /\ UNCHANGED idx
       ELSE IF idx = Len(scripts)
       THEN /\ Return(Success)
            /\ UNCHANGED idx
       ELSE /\ idx' = idx + 1
            /\ pc' = "open"
            /\ opened' = opened \ {idx}
            /\ UNCHANGED result
    /\ UNCHANGED <<scripts, command, cmd, elapsed, attempt, seekFails, lastErr, log>>
    /\ UNCHANGED offset
    /\ UNCHANGED prepVars
    /\ UNCHANGED envVars

\* Cancel that waits for the retry loop of the current script to end
CancelAwaits ==
    /\ pc \notin {"exited", "attempt", "start", "failed", "sleep"}
    /\ pc' = "exited"
    /\ opened' = {}
    /\ UNCHANGED <<scripts, idx, command, cmd, elapsed, attempt, seekFails,
                   lastErr, log, result>>
    /\ UNCHANGED offset
    /\ UNCHANGED prepVars
    /\ UNCHANGED envVars

\* Cancel: os.Exit(0)
Cancel ==
    /\ pc # "exited"
    /\ pc' = "exited"
    /\ opened' = {}
    /\ UNCHANGED <<scripts, idx, command, cmd, elapsed, attempt, seekFails,
                   lastErr, log, result>>
    /\ UNCHANGED offset
    /\ UNCHANGED prepVars
    /\ UNCHANGED envVars

Init ==
    /\ raws \in {r \in ProvisionRaws : PrepareErrs(r, ScriptPaths) = <<>>}
    /\ config = PreparedConfig(raws)
    /\ statOk = ScriptPaths
    /\ decodeErr = FALSE
    /\ prepRet = "nil"
    /\ prepErrs = <<>>
    /\ httpAddr = <<>>
    /\ EnvIdle
    /\ RunIdle

ProvisionStep ==
    \/ BuildScripts
    \/ OpenScript
    \/ CreateCommandTextNonPrivileged
    \/ UploadEnvVars
    \/ GenerateElevatedRunner
    \/ UploadScript
    \/ StartCommand
    \/ RetryCheck
    \/ Sleep
    \/ CheckExitStatus

Next == ProvisionStep \/ Cancel

Spec == Init /\ [][Next]_vars

\* the runs of one script (a single file, or the inline commands)
InitOneScript ==
    /\ Init
    /\ raws.Scripts.isNil

\* the provisioner's thread keeps running while Provision has a step to take
FairSpec == InitOneScript /\ [][Next]_vars /\ WF_vars(ProvisionStep)

---------------------------------------------------------------------------
(* Properties of Provision *)

\* the uploads of the script itself and the starts issued for script i, in order
ScriptOps(i) ==
    SelectSeq(log, LAMBDA e : e.script = i /\ e.op \in {"upload", "start"})

\* every operation logged for script i, helper uploads included
AllOps(i) == SelectSeq(log, LAMBDA e : e.script = i)

Codes == {config.ValidExitCodes.elems[i] : i \in 1..Len(config.ValidExitCodes.elems)}

RetryPcs == {"attempt", "start", "failed", "sleep"}

\* C1: when the retry loop of a script has just ended with a start that
\* succeeded on attempt k, no seek and no upload of that script having failed,
\* the script's operations are exactly upload 1, start 1, ..., upload k,
\* start k, every upload succeeded, starts 1..k-1 failed and start k
\* succeeded, and Provision stands at the exit-status check; and a one-script
\* run that ended after such a start with a valid exit status returned success.
C1_RetryReuploads ==
    /\ (pc = "exit" /\ seekFails = 0
          /\ \A n \in 1..Len(log) :
                (log[n].script = idx /\ log[n].op = "upload") => log[n].ok)
       => LET ops == ScriptOps(idx)
              k == attempt
          IN  /\ k >= 1
              /\ Len(ops) = 2 * k
              /\ \A n \in 1..k :
                    /\ ops[2 * n - 1].op = "upload"
                    /\ ops[2 * n - 1].ok
                    /\ ops[2 * n - 1].attempt = n
                    /\ ops[2 * n].op = "start"
                    /\ ops[2 * n].attempt = n
                    /\ ops[2 * n].ok = (n = k)
              /\ log[Len(log)] = ops[2 * k]
              /\ cmd.ExitStatus = ops[2 * k].exit
    /\ (pc = "done" /\ Len(scripts) = 1 /\ log # <<>>
          /\ log[Len(log)].op = "start" /\ log[Len(log)].ok
          /\ log[Len(log)].exit \in Codes)
       => result.returned /\ result.ok

\* C1 witness: a one-script run that returned success after the start
\* succeeded on the third attempt, all three uploads having succeeded
C1_Witness ==
    /\ pc = "done" /\ result.ok /\ Len(scripts) = 1
    /\ attempt = 3 /\ seekFails = 0
    /\ Len(ScriptOps(1)) = 6
    /\ \A n \in 1..6 : ScriptOps(1)[n].ok = (n \in {1, 3, 5, 6})

\* C2: a run that is in the retry loop eventually leaves it: an attempt
\* succeeds, or Provision returns the retryable error as its fatal error, or
\* the process is cancelled
C2_RetryTerminates ==
    (pc \in RetryPcs)
      ~> \/ pc = "exit"
         \/ pc = "done" /\ ~result.ok /\ result.msg = "Retryable error"
         \/ pc = "exited"

\* C2 witness: Provision returned the retryable error after several attempts
\* that all failed
C2_Witness ==
    /\ pc = "done" /\ result.returned /\ ~result.ok
    /\ result.msg = "Retryable error"
    /\ attempt >= 3
    /\ \A n \in 1..Len(log) : ~log[n].ok

\* C3: the execution list is the configured paths in their order followed by
\* the synthesized inline script, and every operation logged for a script
\* comes after a successful start of each earlier script that reported a
\* valid exit status
C3_ScriptsInOrder ==
    /\ idx # 0 =>
          /\ SubSeq(scripts, 1, SliceLen(config.Scripts)) = config.Scripts.elems
          /\ Len(scripts) = SliceLen(config.Scripts)
                              + (IF config.Inline.isNil THEN 0 ELSE 1)
    /\ \A n \in 1..Len(log) : \A i \in 1..(log[n].script - 1) :
          \E m \in 1..(n - 1) :
             /\ log[m].script = i /\ log[m].op = "start" /\ log[m].ok
             /\ log[m].exit \in Codes

\* C3 witness: the second script's start has been issued
C3_Witness ==
    \E n \in 1..Len(log) : log[n].script = 2 /\ log[n].op = "start"

\* C4: the default valid exit code set is {0}; and the step after a
\* successful start goes on (to the next script, or returns success) exactly
\* when the exit status is in the configured set, and otherwise returns an
\* error carrying the status and the configured set
C4_ExitStatusDecides ==
    /\ [](raws.ValidExitCodes.isNil => config.ValidExitCodes.elems = <<0>>)
    /\ [][(pc = "exit" /\ pc' # "exited") =>
            IF cmd.ExitStatus \in Codes
            THEN \/ pc' = "open" /\ idx' = idx + 1 /\ ~result'.returned
                 \/ pc' = "done" /\ result'.ok /\ idx = Len(scripts)
            ELSE /\ pc' = "done" /\ result'.returned /\ ~result'.ok
                 /\ result'.status = cmd.ExitStatus
                 /\ result'.allowed = config.ValidExitCodes.elems]_vars

\* C4 witness: with {0, 3010} the first script exited 3010 and the run went
\* on, and the second exited 1 and the run returned the error with 1 and the set
C4_Witness ==
    /\ pc = "done" /\ ~result.ok
    /\ result.status = 1 /\ result.allowed = <<0, 3010>>
    /\ \E n \in 1..Len(log) :
          log[n].script = 1 /\ log[n].op = "start" /\ log[n].ok /\ log[n].exit = 3010
    /\ log[Len(log)].script = 2

\* C5: each fatal failure (open, rendering, retry window exhausted, exit
\* status not valid) makes Provision return an error in that step; once
\* Provision has returned an error no operation is issued; a script whose
\* file could not be opened has no operation at all; and a script whose exit
\* status was not valid was started successfully once, as its last operation
C5_FailureAborts ==
    /\ [](result.returned /\ ~result.ok /\ result.cause = "open"
            => AllOps(idx) = <<>>)
    /\ [](result.returned /\ ~result.ok /\ result.cause = "exit"
            => /\ log[Len(log)].script = idx /\ log[Len(log)].op = "start"
               /\ Cardinality({n \in 1..Len(log) :
                     log[n].script = idx /\ log[n].op = "start" /\ log[n].ok}) = 1)
    /\ [][/\ (result.returned /\ ~result.ok)
             => (log' = log /\ result' = result /\ idx' = idx)
          /\ (pc = "open" /\ pc' \notin {"render", "exited"})
             => (pc' = "done" /\ ~result'.ok /\ log' = log)
          /\ (pc \in {"render", "wrapper"} /\ pc' \notin {"wrapper", "attempt", "exited"})
             => (pc' = "done" /\ ~result'.ok)
          /\ (pc = "failed" /\ elapsed >= config.StartRetryTimeout /\ pc' # "exited")
             => (pc' = "done" /\ ~result'.ok /\ log' = log)
          /\ (pc = "exit" /\ cmd.ExitStatus \notin Codes /\ pc' # "exited")
             => (pc' = "done" /\ ~result'.ok /\ log' = log)]_vars

\* C5 witness: the first script succeeded and the second could not be opened
C5_Witness ==
    /\ pc = "done" /\ ~result.ok /\ result.cause = "open"
    /\ idx = 2 /\ Len(scripts) = 2 /\ log # <<>>

---------------------------------------------------------------------------
(* Properties of Prepare *)

Elems(seq) == {seq[n] : n \in 1..Len(seq)}

HasErr(msg) == \E n \in 1..Len(prepErrs) : prepErrs[n].msg = msg

MsgScriptOrScripts == "Only one of script or scripts can be specified."
MsgNeedPassword == "Must supply an 'elevated_password' if 'elevated_user' provided"
MsgNeedUser == "Must supply an 'elevated_user' if 'elevated_password' provided"
MsgNoSource == "Either a script file or inline script must be specified."
MsgBothSources == "Only a script file or an inline script can be specified, not both."

\* what the given configuration sets
ScriptAndScripts == raws.Script # "" /\ SliceLen(raws.Scripts) > 0
FileScriptSet == raws.Script # "" \/ SliceLen(raws.Scripts) > 0
InlineSet == SliceLen(raws.Inline) > 0
OnlyUser == raws.ElevatedUser # "" /\ raws.ElevatedPassword = ""
OnlyPassword == raws.ElevatedUser = "" /\ raws.ElevatedPassword # ""

\* Prepare returned, having decoded the configuration
Validated == prepRet # "none" /\ ~decodeErr

\* C6: Prepare fails when script and scripts are both set, with the
\* script/scripts conflict in its aggregate error, and fails when inline and
\* a file script are both set, with the inline/file conflict in its aggregate
\* error; so both are in the one aggregate when both conflicts are present
C6_ConflictsReported ==
    prepRet # "none" =>
       /\ ScriptAndScripts =>
             /\ prepRet # "nil"
             /\ ~decodeErr => (prepRet = "errs" /\ HasErr(MsgScriptOrScripts))
       /\ (InlineSet /\ FileScriptSet) =>
             /\ prepRet # "nil"
             /\ ~decodeErr => (prepRet = "errs" /\ HasErr(MsgBothSources))

\* C6 witness: both conflicts are present and both are in the aggregate
C6_Witness ==
    /\ prepRet = "errs" /\ ScriptAndScripts /\ InlineSet
    /\ HasErr(MsgScriptOrScripts) /\ HasErr(MsgBothSources)

\* C7: with exactly one of elevated_user and elevated_password set Prepare
\* fails and its error names the missing field and not the other; with both
\* or neither set it reports neither message
C7_ElevatedPairing ==
    prepRet # "none" =>
       /\ OnlyUser =>
             /\ prepRet # "nil"
             /\ ~decodeErr => (HasErr(MsgNeedPassword) /\ ~HasErr(MsgNeedUser))
       /\ OnlyPassword =>
             /\ prepRet # "nil"
             /\ ~decodeErr => (HasErr(MsgNeedUser) /\ ~HasErr(MsgNeedPassword))
       /\ (~OnlyUser /\ ~OnlyPassword) =>
             (~HasErr(MsgNeedUser) /\ ~HasErr(MsgNeedPassword))

\* C7 witness: only the user is set, and that is the only error
C7_Witness ==
    /\ prepRet = "errs" /\ OnlyUser
    /\ Len(prepErrs) = 1 /\ HasErr(MsgNeedPassword)

\* C8: when Prepare returns no error exactly one of the script list and the
\* inline list of p.config is non-empty, and an inline list given empty is nil
C8_ExactlyOneSource ==
    /\ prepRet = "nil" =>
          (SliceLen(config.Scripts) > 0) # (SliceLen(config.Inline) > 0)
    /\ (Validated /\ SliceLen(raws.Inline) = 0) => config.Inline.isNil

\* C8 witness: an explicitly empty inline list with a script is accepted
C8_Witness ==
    /\ prepRet = "nil" /\ raws.Inline = Slice(<<>>)
    /\ SliceLen(config.Scripts) = 1 /\ config.Inline.isNil

\* whether an assignment has no "=" or an empty key
Malformed(kv) == (\A n \in 1..Len(kv) : kv[n] # ChEq) \/ kv[1] = ChEq

\* every script path the given configuration names
ConfiguredPaths ==
    (IF raws.Script # "" THEN {raws.Script} ELSE {}) \cup Elems(raws.Scripts.elems)

\* the script paths Prepare keeps: script when it is set, scripts otherwise
EffectivePaths ==
    IF raws.Script # "" THEN {raws.Script} ELSE Elems(raws.Scripts.elems)

\* the validation problems of the given configuration, the script files being paths
Problems(paths) ==
    (IF ScriptAndScripts THEN {Err(MsgScriptOrScripts)} ELSE {})
    \cup (IF OnlyUser THEN {Err(MsgNeedPassword)} ELSE {})
    \cup (IF OnlyPassword THEN {Err(MsgNeedUser)} ELSE {})
    \cup (IF ~FileScriptSet /\ ~InlineSet THEN {Err(MsgNoSource)} ELSE {})
    \cup (IF FileScriptSet /\ InlineSet THEN {Err(MsgBothSources)} ELSE {})
    \cup {BadScriptErr(path) : path \in paths \ statOk}
    \cup {BadVarErr(kv) : kv \in {v \in Elems(raws.Vars.elems) : Malformed(v)}}

\* C9 as stated: every problem of the given configuration, an unreadable path
\* of any configured script among them, is in the aggregate error, and
\* Prepare returns no error only when there is none
C9_AllProblemsReported ==
    Validated =>
       /\ Problems(ConfiguredPaths) \subseteq Elems(prepErrs)
       /\ prepRet = "nil" => Problems(ConfiguredPaths) = {}

\* C9 amended: the same, the script files checked being those Prepare keeps
\* (script when it is set, and only otherwise the entries of scripts); the
\* aggregate holds these problems and nothing else
C9_KeptProblemsReported ==
    Validated =>
       /\ Problems(EffectivePaths) = Elems(prepErrs)
       /\ (prepRet = "nil") = (Problems(EffectivePaths) = {})
       /\ (prepRet = "errs") = (Problems(EffectivePaths) # {})

\* C9 witness: five problems of different kinds are reported together
C9_Witness ==
    /\ prepRet = "errs" /\ ScriptAndScripts /\ OnlyPassword /\ InlineSet
    /\ raws.Script \notin statOk
    /\ Cardinality({v \in Elems(raws.Vars.elems) : Malformed(v)}) = 2
    /\ Cardinality(Elems(prepErrs)) = 6

---------------------------------------------------------------------------
(* Properties of the environment assembler *)

\* a < b in lexicographic order: at the first place they differ a has the
\* smaller byte, or a ends there and b does not
LexLess(a, b) ==
    \E n \in 1..(Len(b)) :
       /\ n <= Len(a) + 1
       /\ \A m \in 1..(n - 1) : a[m] = b[m]
       /\ n = Len(a) + 1 \/ a[n] < b[n]

\* the first index from i on at which sub occurs in s, 0 when there is none
RECURSIVE FindSub(_, _, _)
FindSub(s, sub, i) ==
    IF i + Len(sub) - 1 > Len(s) THEN 0
    ELSE IF SubSeq(s, i, i + Len(sub) - 1) = sub THEN i
    ELSE FindSub(s, sub, i + 1)

\* the (key, value) entries read back from a flattened string written with
\* format; an entry with an empty key where the string does not follow it
RECURSIVE ParseFlattened(_, _)
ParseFlattened(s, format) ==
    LET bad == <<[key |-> <<>>, value |-> <<>>]>>
    IN
    IF s = <<>> THEN <<>>
    ELSE IF FindSub(s, format[1], 1) # 1 THEN bad
    ELSE LET r1 == SubSeq(s, Len(format[1]) + 1, Len(s))
             i == FindSub(r1, format[2], 1)
         IN  IF i = 0 THEN bad
             ELSE LET r2 == SubSeq(r1, i + Len(format[2]), Len(r1))
                      j == FindSub(r2, format[3], 1)
                  IN  IF j = 0 THEN bad
                      ELSE <<[key |-> SubSeq(r1, 1, i - 1),
                              value |-> SubSeq(r2, 1, j - 1)]>>
                           \o ParseFlattened(
                                 SubSeq(r2, j + Len(format[3]), Len(r2)), format)

\* the key of an assignment: what precedes its first "="
KeyOf(kv) == SubSeq(kv, 1, (CHOOSE n \in 1..Len(kv) :
                               kv[n] = ChEq /\ \A m \in 1..(n - 1) : kv[m] # ChEq) - 1)

DistinctKeys(vs) ==
    \A i \in 1..Len(vs) : \A j \in 1..Len(vs) : i # j => KeyOf(vs[i]) # KeyOf(vs[j])

\* the keys of the merged variables
MergedKeys ==
    {KeyBuildName, KeyBuilderType}
    \cup (IF httpAddr # <<>> THEN {KeyHttpAddr} ELSE {})
    \cup {KeyOf(kv) : kv \in Elems(config.Vars.elems)}

\* the entries read back from the last call's output
Entries == ParseFlattened(envCall.flattened, EnvFormat(config, envCall.elevated))

\* C10: for assignments with distinct keys and either value of the elevation
\* flag, the output lists the merged keys in strictly ascending lexicographic
\* order, each once, and the call on any permutation of the assignments,
\* whatever order the map is ranged over in, returns the same output
C10_SortedAndOrderFree ==
    (envCall.called /\ DistinctKeys(config.Vars.elems)) =>
       /\ \A n \in 1..(Len(Entries) - 1) :
             LexLess(Entries[n].key, Entries[n + 1].key)
       /\ {Entries[n].key : n \in 1..Len(Entries)} = MergedKeys
       /\ Len(Entries) = Cardinality(MergedKeys)
       /\ \A perm \in RangeOrders(Elems(config.Vars.elems)) :
             \A order \in RangeOrders(MergedKeys) :
                CreateFlattenedEnvVars([config EXCEPT !.Vars = Slice(perm)],
                                       httpAddr, envCall.elevated, order)
                  = envCall.flattened

\* C10 witness: two assignments given in descending key order, one key before
\* and one after the reserved keys, come out around them
C10_Witness ==
    /\ envCall.called /\ envCall.elevated
    /\ config.Vars.elems = << <<90,61,50>>, <<65,61,49>> >>
    /\ Len(Entries) = 4
    /\ Entries[1].key = StrA /\ Entries[2].key = KeyBuilderType
    /\ Entries[3].key = KeyBuildName /\ Entries[4].key = StrZ


---------------------------------------------------------------------------
(* C11: the reserved variables in the assembled environment *)

\* the value of an assignment: what follows its first '='
ValueOf(kv) == SubSeq(kv, Len(KeyOf(kv)) + 2, Len(kv))

\* the positions of the assignments whose key is k
UserIdx(k) == {i \in 1..Len(config.Vars.elems) : KeyOf(config.Vars.elems[i]) = k}

\* the positions of the output's entries whose key is k
EntryIdx(k) == {n \in 1..Len(Entries) : Entries[n].key = k}

\* key k is in the output once, with value v
OnceWith(k, v) ==
    /\ Cardinality(EntryIdx(k)) = 1
    /\ \A n \in EntryIdx(k) : Entries[n].value = v

\* the value the last assignment with key k gives it
LastUserValue(k) ==
    ValueOf(config.Vars.elems[CHOOSE i \in UserIdx(k) : \A j \in UserIdx(k) : j <= i])

\* a reserved key is in the output once: with the user's value when an
\* assignment has that key, with the value Packer provides otherwise
ReservedEntry(k, provided) ==
    IF UserIdx(k) # {} THEN OnceWith(k, LastUserValue(k)) ELSE OnceWith(k, provided)

\* C11 as stated: the output always holds PACKER_BUILD_NAME and
\* PACKER_BUILDER_TYPE, holds PACKER_HTTP_ADDR exactly when the HTTP address
\* is non-empty, and a reserved key an assignment also names is there once
\* with the user's value
C11_HttpAddrIffAccessor ==
    envCall.called =>
       /\ ReservedEntry(KeyBuildName, config.PackerBuildName)
       /\ ReservedEntry(KeyBuilderType, config.PackerBuilderType)
       /\ (EntryIdx(KeyHttpAddr) # {}) <=> (httpAddr # <<>>)
       /\ EntryIdx(KeyHttpAddr) # {} => ReservedEntry(KeyHttpAddr, httpAddr)

\* C11: the output always holds PACKER_BUILD_NAME and PACKER_BUILDER_TYPE,
\* holds PACKER_HTTP_ADDR exactly when the HTTP address is non-empty or an
\* assignment names that key, and a reserved key an assignment also names is
\* there once with the user's value
C11_ReservedKeys ==
    envCall.called =>
       /\ ReservedEntry(KeyBuildName, config.PackerBuildName)
       /\ ReservedEntry(KeyBuilderType, config.PackerBuilderType)
       /\ (EntryIdx(KeyHttpAddr) # {}) <=>
             (httpAddr # <<>> \/ UserIdx(KeyHttpAddr) # {})
       /\ EntryIdx(KeyHttpAddr) # {} => ReservedEntry(KeyHttpAddr, httpAddr)

\* C11 witness: the HTTP address is set, an assignment names
\* PACKER_BUILD_NAME, and the output holds the three reserved keys, the
\* build name with the user's value
C11_Witness ==
    /\ envCall.called /\ httpAddr = <<104>>
    /\ config.Vars.elems = << KeyBuildName \o <<61,50>> >>
    /\ Len(Entries) = 3
    /\ OnceWith(KeyBuildName, <<50>>)
    /\ OnceWith(KeyBuilderType, <<116>>)
    /\ OnceWith(KeyHttpAddr, <<104>>)


---------------------------------------------------------------------------
(* C12: a start follows the upload of the same attempt *)

\* every start in the log comes directly after a successful upload of the
\* same script in the same attempt, whose content was read from offset 0
StartFollowsUpload ==
    \A n \in 1..Len(log) :
       log[n].op = "start" =>
          /\ n > 1
          /\ log[n - 1].op = "upload" /\ log[n - 1].ok
          /\ log[n - 1].script = log[n].script
          /\ log[n - 1].attempt = log[n].attempt
          /\ log[n - 1].from = 0

\* a Provision that returned a rewind or upload failure returned it from the
\* retry loop, whose timer had run out
RewindUploadFatalOnlyByTimeout ==
    (result.returned /\ result.cause \in {"seek", "Error uploading script"}) =>
       /\ result.msg = "Retryable error"
       /\ elapsed >= config.StartRetryTimeout

\* a call of the retried function that fails at the rewind issues nothing, one
\* that fails at the upload issues that upload only; neither returns from
\* Provision, both hand the error to the retry loop
FailedAttemptStartsNothing ==
    (pc = "attempt" /\ pc' # "start" /\ pc' # "exited") =>
       /\ pc' = "failed"
       /\ result' = NotReturned
       /\ \/ lastErr' = "seek" /\ log' = log
          \/ /\ lastErr' = "Error uploading script"
             /\ Len(log') = Len(log) + 1
             /\ log'[Len(log')].op = "upload" /\ ~log'[Len(log')].ok

\* C12: a start is issued only directly after a successful upload of the
\* current script, read from offset 0, in the same attempt; a failed rewind
\* or upload starts nothing in its attempt and goes to the retry loop, not
\* out of Provision
C12_StartOnlyAfterUpload ==
    /\ [](StartFollowsUpload /\ RewindUploadFatalOnlyByTimeout)
    /\ [][FailedAttemptStartsNothing]_vars

\* C12 witness: a script whose first attempt failed at the rewind and whose
\* second failed at the upload is started in the third, after its upload
C12_Witness ==
    /\ seekFails = 1 /\ attempt = 3 /\ pc = "exit"
    /\ Len(log) >= 3
    /\ log[Len(log)].op = "start" /\ log[Len(log)].ok /\ log[Len(log)].attempt = 3
    /\ log[Len(log) - 1].op = "upload" /\ log[Len(log) - 1].ok
    /\ log[Len(log) - 1].attempt = 3
    /\ log[Len(log) - 2].op = "upload" /\ ~log[Len(log) - 2].ok


---------------------------------------------------------------------------
(* C13: the retry loop after an attempt *)

\* after a failed attempt the timer is checked: run out, Provision returns
\* that attempt's error; otherwise the loop sleeps
FailedThenCheck ==
    (pc = "failed" /\ pc' # "exited") =>
       IF elapsed >= config.StartRetryTimeout
       THEN /\ pc' = "done"
            /\ result' = Failure("Retryable error", lastErr)
            /\ log' = log
       ELSE /\ pc' = "sleep"
            /\ result' = NotReturned
            /\ log' = log

\* the sleep lasts the fixed delay and is followed by another attempt
SleepThenAttempt ==
    (pc = "sleep" /\ pc' # "exited") =>
       /\ pc' = "attempt"
       /\ elapsed' = Min(elapsed + RetryableSleep, config.StartRetryTimeout)
       /\ attempt' = attempt /\ attempt < MaxAttempts
       /\ log' = log /\ result' = NotReturned

\* a start that succeeds ends the loop: the exit status is checked next, and
\* from there no attempt on the same script follows
SuccessEndsLoop ==
    /\ (pc = "start" /\ pc' # "exited") =>
          IF log'[Len(log')].ok THEN pc' = "exit" ELSE pc' = "failed"
    /\ (pc = "exit" /\ pc' # "exited") =>
          /\ log' = log
          /\ \/ pc' = "done"
             \/ pc' = "open" /\ idx' = idx + 1

\* C13: after every failed attempt the loop checks the timeout; if it has
\* elapsed that attempt's error is returned as fatal, otherwise the loop waits
\* the fixed delay and makes another attempt; a successful attempt ends the
\* loop at once
C13_RetryLoopSteps ==
    [][FailedThenCheck /\ SleepThenAttempt /\ SuccessEndsLoop]_vars

\* C13 witness: a third attempt failed at the start after the timeout had run
\* out during the second sleep, and Provision returned that error
C13_Witness ==
    /\ result.returned /\ ~result.ok
    /\ result.msg = "Retryable error" /\ result.cause = "start"
    /\ attempt = 3
    /\ config.StartRetryTimeout = MaxTimeout
    /\ elapsed = config.StartRetryTimeout
    /\ log[Len(log)].op = "start" /\ ~log[Len(log)].ok /\ log[Len(log)].attempt = 3


---------------------------------------------------------------------------
(* C14: the command text and the helper uploads of a script *)

Privileged == config.ElevatedUser # ""

\* the helper uploads of script i: none in plain mode; in privileged mode
\* the environment script then the wrapper, each at most once, and both,
\* successful, before anything else once the script itself was uploaded
HelperUploads(i) ==
    LET ops == AllOps(i)
        helpers == SelectSeq(ops, LAMBDA e : e.op \in {"uploadEnvVars", "uploadWrapper"})
    IN  /\ ~Privileged => helpers = <<>>
        /\ Len(helpers) <= 2
        /\ Len(helpers) >= 1 => helpers[1].op = "uploadEnvVars" /\ ops[1] = helpers[1]
        /\ Len(helpers) = 2 =>
              /\ helpers[1].ok
              /\ helpers[2].op = "uploadWrapper" /\ ops[2] = helpers[2]
        /\ (Privileged /\ ScriptOps(i) # <<>>) =>
              /\ Len(helpers) = 2
              /\ helpers[2].ok

\* the command text is set by the rendering of a script not yet uploaded,
\* which is entered from the opening of the script only
RenderedOnce ==
    /\ command' # command =>
          /\ pc \in {"render", "wrapper"} /\ pc' = "attempt"
          /\ \A n \in 1..Len(log') :
                ~(log'[n].script = idx /\ log'[n].op \in {"upload", "start"})
    /\ (pc' = "render" /\ pc # "render") => pc = "open"
    /\ (pc' = "wrapper" /\ pc # "wrapper") => pc = "render"
    /\ (pc' = "open" /\ pc # "open") => (pc = "idle" \/ idx' = idx + 1)
    /\ (pc' = "attempt" /\ pc \notin RetryPcs) => command' # NoCommand

\* every start, first or retried, runs the command text rendered for the script
StartReusesCommand ==
    (pc = "start" /\ pc' # "exited") =>
       /\ cmd'.Command = command
       /\ command' = command

\* C14: the command text is rendered once per script, before the first
\* upload of that script, and every retry reuses it unchanged; in privileged
\* mode a script has exactly two helper uploads, the environment script then
\* the wrapper, both before the script's first upload and neither repeated
\* on retry
C14_RenderedOncePerScript ==
    /\ [](\A i \in 1..Len(scripts) : HelperUploads(i))
    /\ [][RenderedOnce /\ StartReusesCommand]_vars

\* C14 witness: in privileged mode a script is started for the second time,
\* with the command text rendered before its first upload; its operations
\* are the two helper uploads, then upload, start, upload, start
C14_Witness ==
    /\ Privileged /\ pc = "exit" /\ attempt = 2
    /\ cmd.Command = command /\ command.payload.kind = "file"
    /\ Len(AllOps(idx)) = 6
    /\ AllOps(idx)[1].op = "uploadEnvVars" /\ AllOps(idx)[2].op = "uploadWrapper"
    /\ AllOps(idx)[3].op = "upload" /\ AllOps(idx)[4].op = "start"
    /\ ~AllOps(idx)[4].ok
    /\ AllOps(idx)[5].op = "upload" /\ AllOps(idx)[6].op = "start"


---------------------------------------------------------------------------
(* C15: a rejected helper upload *)

\* a rejected helper upload is the last remote operation of the run:
\* Provision has returned the rendering error for it, the script it was for
\* has no upload and no start, and a rejected environment upload has no
\* wrapper upload after it
RejectedHelperEndsRun(n) ==
    LET e == log[n]
        ops == AllOps(e.script)
    IN  /\ n = Len(log)
        /\ pc \in {"done", "exited"}
        /\ result = Failure("Error processing command", e.op)
        /\ e.script = idx
        /\ ScriptOps(e.script) = <<>>
        /\ IF e.op = "uploadEnvVars"
           THEN ops = <<e>>
           ELSE /\ Len(ops) = 2 /\ ops[2] = e
                /\ ops[1].op = "uploadEnvVars" /\ ops[1].ok

\* C15: in privileged mode a rejected upload of the environment script fails
\* the rendering without the wrapper being uploaded, a rejected upload of the
\* wrapper fails the rendering, and either ends the run with an error at
\* once: no retry, no upload of the target script, no start
C15_HelperUploadFatal ==
    /\ \A n \in 1..Len(log) :
          (log[n].op \in {"uploadEnvVars", "uploadWrapper"} /\ ~log[n].ok) =>
             RejectedHelperEndsRun(n)
    /\ (result.returned /\ result.cause \in {"uploadEnvVars", "uploadWrapper"}) =>
          /\ Privileged /\ log # <<>>
          /\ log[Len(log)].op = result.cause /\ ~log[Len(log)].ok

\* C15 witness: the first script ran, the wrapper upload of the second was
\* rejected after its environment script was uploaded, and Provision returned
C15_Witness ==
    /\ pc = "done" /\ idx = 2
    /\ result = Failure("Error processing command", "uploadWrapper")
    /\ Len(AllOps(2)) = 2
    /\ AllOps(2)[1].op = "uploadEnvVars" /\ AllOps(2)[1].ok
    /\ AllOps(2)[2].op = "uploadWrapper" /\ ~AllOps(2)[2].ok
    /\ ScriptOps(1) # <<>>


---------------------------------------------------------------------------
(* C16: Cancel *)

\* the step that ends the process issues no remote operation, returns nothing
\* from Provision and leaves its position in the script list where it was
ExitIsBare ==
    pc' = "exited" =>
       /\ pc # "exited"
       /\ log' = log /\ result' = result
       /\ <<scripts, idx, command, cmd, attempt, elapsed, offset>>'
             = <<scripts, idx, command, cmd, attempt, elapsed, offset>>
       /\ config' = config

\* C16: Cancel can be taken in every state of a run, before, during and after
\* Provision; it ends the process in that step, with no further upload or
\* start, and nothing is done or awaited before or after
C16_CancelEndsProcess ==
    /\ [](pc # "exited" => ENABLED Cancel)
    /\ [][ExitIsBare]_vars
    /\ [][pc # "exited"]_vars

\* C16 witness: the process ended between the upload of a script and its
\* start, Provision not having returned
C16_Witness ==
    /\ pc = "exited" /\ result = NotReturned
    /\ log # <<>>
    /\ log[Len(log)].op = "upload" /\ log[Len(log)].ok
    /\ attempt = 2


---------------------------------------------------------------------------
(* C17: Provision and the configuration *)

\* the configuration's fields apart from the interpolation context's data
RequestFields == DOMAIN config \ {"ctxData"}

\* C17: at every point of a Provision run, returned or not, the script list,
\* inline lines, remote path, valid exit codes, variable assignments, command
\* templates, retry timeout and elevation identity of the configuration are
\* those Prepare left, and the script synthesized from the inline lines is in
\* Provision's own list only, after the configured scripts
C17_ConfigUnchanged ==
    /\ \A f \in RequestFields : config[f] = PreparedConfig(raws)[f]
    /\ idx # 0 =>
          /\ SubSeq(scripts, 1, Len(config.Scripts.elems)) = config.Scripts.elems
          /\ Len(scripts) = Len(config.Scripts.elems)
                             + (IF config.Inline.isNil THEN 0 ELSE 1)
          /\ \A n \in 1..Len(config.Scripts.elems) :
                config.Scripts.elems[n] \notin {TempScript, ""}

\* C17 witness: a run on inline lines returned success after the synthesized
\* script ran with a rendered command, and the configured script list is empty
C17_Witness ==
    /\ pc = "done" /\ result.ok
    /\ ~config.Inline.isNil
    /\ scripts = <<TempScript>>
    /\ config.Scripts.elems = <<>>
    /\ config.ctxData # PreparedConfig(raws).ctxData
    /\ log # <<>> /\ log[Len(log)].op = "start"


---------------------------------------------------------------------------
(* C18: the assignments Prepare accepts *)

\* the number of "=" in an assignment
CountEq(kv) == Cardinality({n \in 1..Len(kv) : kv[n] = ChEq})

\* whether the aggregate error names the assignment
Reported(kv) == BadVarErr(kv) \in Elems(prepErrs)

\* C18 as stated: the assignments Prepare does not report are those with
\* exactly one "=" and a non-empty key; one with no "=", an empty key or
\* more than one "=" is reported
C18_ExactlyOneEq ==
    Validated =>
       \A kv \in Elems(raws.Vars.elems) :
          ~Reported(kv) <=> (CountEq(kv) = 1 /\ kv[1] # ChEq)

\* C18: the assignments Prepare does not report are those with at least one
\* "=" and a non-empty key before the first; one with no "=" or an empty key
\* is reported, and a configuration Prepare accepts has none of these
C18_KeyBeforeFirstEq ==
    Validated =>
       /\ \A kv \in Elems(raws.Vars.elems) :
             ~Reported(kv) <=> (CountEq(kv) >= 1 /\ kv[1] # ChEq)
       /\ prepRet = "nil" =>
             \A kv \in Elems(config.Vars.elems) :
                /\ CountEq(kv) >= 1
                /\ Len(SplitN2(kv)) = 2 /\ SplitN2(kv)[1] # <<>>
                /\ SplitN2(kv)[1] \o <<ChEq>> \o SplitN2(kv)[2] = kv

\* C18 witness: Prepare accepted a configuration with the assignments
\* "A=1=2" and "A=1"
C18_Witness ==
    /\ prepRet = "nil"
    /\ config.Vars.elems = << <<65,61,49,61,50>>, <<65,61,49>> >>
    /\ CountEq(config.Vars.elems[1]) = 2
    /\ prepErrs = <<>>


---------------------------------------------------------------------------
(* C19: the deadline and the attempts *)

\* the retry timer has run out
DeadlinePassed == elapsed >= config.StartRetryTimeout

\* an attempt is made whenever the loop stands before one, the timer run out
\* or not: the step issues the rewind and upload and returns nothing
AttemptUnconditional ==
    (pc = "attempt" /\ pc' # "exited") =>
       /\ attempt' = attempt + 1
       /\ pc' \in {"start", "failed"}
       /\ result' = NotReturned

\* the retry loop's error is returned from the check after a failed attempt
\* only, and a start that succeeds after the deadline still ends the loop
\* with success
CheckedAfterFailureOnly ==
    /\ (result' # result /\ result'.msg = "Retryable error") =>
          (pc = "failed" /\ DeadlinePassed /\ attempt >= 1)
    /\ (pc = "start" /\ pc' # "exited" /\ log'[Len(log')].ok) =>
          (pc' = "exit" /\ result' = NotReturned)

\* once an attempt has begun after the deadline the loop never sleeps or
\* attempts again: the deadline stays passed until the attempt ends, and a
\* failure is then fatal
LateAttemptIsLast ==
    (pc \in {"attempt", "start", "failed"} /\ DeadlinePassed /\ pc' # "exited") =>
       /\ pc' \notin {"sleep", "attempt"}
       /\ pc' \in {"start", "failed"} => DeadlinePassed'

\* a sleep begins before the deadline only, so an attempt that begins after the
\* deadline follows a sleep during which the deadline passed; the first
\* attempt begins with the timer just armed
SleepBeginsBeforeDeadline ==
    /\ pc = "sleep" => ~DeadlinePassed
    /\ (pc = "attempt" /\ attempt = 0) => (elapsed = 0 /\ ~DeadlinePassed)
    /\ pc \in {"start", "failed", "sleep"} => attempt >= 1

\* C19: the retry loop makes at least one attempt however short the timeout;
\* at most one attempt begins after the deadline has passed, the one that
\* follows a sleep during which it passed; the deadline is checked after a
\* failed attempt only, never before or during an attempt
C19_DeadlineAfterFailureOnly ==
    /\ []SleepBeginsBeforeDeadline
    /\ [][AttemptUnconditional /\ CheckedAfterFailureOnly /\ LateAttemptIsLast]_vars

\* C19 witness: with a timeout shorter than the delay, the second attempt,
\* begun after the deadline, was started and Provision returned success
C19_Witness ==
    /\ pc = "done" /\ result.ok
    /\ config.StartRetryTimeout < RetryableSleep
    /\ attempt = 2 /\ Len(scripts) = 1
    /\ Len(ScriptOps(1)) >= 2
    /\ ScriptOps(1)[Len(ScriptOps(1))].attempt = 2 /\ ScriptOps(1)[Len(ScriptOps(1))].ok


---------------------------------------------------------------------------
(* C20: what a successful Provision has done *)

\* the starts of script i that succeeded
GoodStarts(i) == SelectSeq(AllOps(i), LAMBDA e : e.op = "start" /\ e.ok)

\* script i was started successfully once, by the last remote operation
\* issued for it, and exited with a valid status
RanToValidExit(i) ==
    LET ops == AllOps(i)
    IN  /\ ops # <<>>
        /\ Len(GoodStarts(i)) = 1
        /\ ops[Len(ops)] = GoodStarts(i)[1]
        /\ ops[Len(ops)].exit \in Codes

\* C20: when Provision has returned success, every script of the list was
\* started successfully exactly once, that start was the last remote
\* operation for the script, its exit status is valid, and the scripts were
\* handled in list order; no script was skipped or left unstarted
C20_SuccessMeansAllRan ==
    (result.returned /\ result.ok) =>
       /\ \A i \in 1..Len(scripts) : RanToValidExit(i)
       /\ \A n \in 1..Len(log) : log[n].script \in 1..Len(scripts)
       /\ \A m \in 1..Len(log) : \A n \in m..Len(log) :
             log[m].script <= log[n].script
       /\ idx = Len(scripts)

\* C20 witness: a two-script run returned success; the first script was
\* started on its second attempt, the second exited with status 3010
C20_Witness ==
    /\ pc = "done" /\ result.ok /\ Len(scripts) = 2
    /\ Len(ScriptOps(1)) = 4 /\ ~ScriptOps(1)[2].ok /\ ScriptOps(1)[4].ok
    /\ Len(ScriptOps(2)) = 2 /\ ScriptOps(2)[2].exit = 3010

===========================================================================
